---- MODULE Spec2Model ----
EXTENDS Integers, Sequences, FiniteSets, TLC

\* Playback loop of run_replay (src/ui/replay.py), started from a loaded
\* set of traces. Times are kept as exact integers in units of 1/Den
\* second; every reachable playback speed is a multiple of 1/Den. The float
\* current_time is the exact value ct plus a rounding error far below 1/Den
\* whose sign is ctErr (-1, 0 or 1); it only decides comparisons at ties.

Den == 2^10 * 3^8

\* ---------------- program constants ----------------
SeekStep == 5
SpeedMax == 8
\* the lower speed bound 0.25, as 1/SpeedMinInv
SpeedMinInv == 4

\* ---------------- bounds ----------------
MaxTicks == 2
MaxKeys == 4

Entities == {"A", "B", "C"}

\* insertion order of the traces dict
LoadOrder == <<"A", "B", "C">>

\* candidate traces: sample times (seconds, as the builder sorts them) and
\* the cumulative distances at those samples
TraceChoices == {[t |-> <<0, 1, 6>>, d |-> <<0, 40, 90>>],
                 [t |-> <<2, 2, 7>>, d |-> <<0, 50, 70>>]}

DtSet == {1, 2}

VARIABLES trackPts, times, dist, selected, ct, ctErr, speed, paused, indices, rendered, running, done, ticks, keys, lastOp, rin, rout, ld, data, fg

vars == <<trackPts, times, dist, selected, ct, ctErr, speed, paused, indices, rendered, running, done, ticks, keys, lastOp, rin, rout, ld, data, fg>>

PlayVars == <<trackPts, times, dist, selected, ct, ctErr, speed, paused, indices, rendered, running, done, ticks, keys, lastOp>>

LoadVars == <<ld, data, fg>>

Last(s) == s[Len(s)]

\* min(tr.times[0] for tr in traces.values() if tr.times)
MinTime(tm) == LET fs == {tm[e][1] : e \in Entities}
               IN (CHOOSE x \in fs : \A y \in fs : x <= y)
\* max(tr.times[-1] for tr in traces.values() if tr.times)
MaxTime(tm) == LET ls == {Last(tm[e]) : e \in Entities}
               IN (CHOOSE x \in ls : \A y \in ls : x >= y)

\* x / Den is a binary fraction, so a double holds it exactly
Dyadic(x) == x % (3^8) = 0

\* possible signs of the rounding error of a float sum with exact value s:
\* exact when its operands are exact doubles and s is a binary fraction
SumErrs(exactIn, s) ==
  IF exactIn /\ Dyadic(s) THEN {0}
  ELSE IF Dyadic(s) THEN {-1, 0, 1} ELSE {-1, 1}

\* float(x) < y, float(x) > y for x with error sign e and an exact double y
FLt(x, e, y) == x < y \/ (x = y /\ e < 0)
FGt(x, e, y) == x > y \/ (x = y /\ e > 0)

\* bisect.bisect_right(a, x): first index (0-based) whose element exceeds x
RECURSIVE BisectRightLoop(_, _, _, _, _)
BisectRightLoop(a, x, e, lo, hi) ==
  IF lo < hi
  THEN LET mid == (lo + hi) \div 2
       IN IF FLt(x, e, a[mid + 1]) THEN BisectRightLoop(a, x, e, lo, mid)
                                  ELSE BisectRightLoop(a, x, e, mid + 1, hi)
  ELSE lo

RECURSIVE BisectLeftLoop(_, _, _, _, _)
BisectLeftLoop(a, x, e, lo, hi) ==
  IF lo < hi
  THEN LET mid == (lo + hi) \div 2
       IN IF FGt(x, e, a[mid + 1]) THEN BisectLeftLoop(a, x, e, mid + 1, hi)
                                  ELSE BisectLeftLoop(a, x, e, lo, mid)
  ELSE lo

BisectLeft(a, x, e) == BisectLeftLoop(a, x, e, 0, Len(a))

BisectRight(a, x, e) == BisectRightLoop(a, x, e, 0, Len(a))

\* idx = bisect_right(tr.times, current_time); indices[code] = max(0, idx - 1)
Resolve(a, x, e) == LET idx == BisectRight(a, x, e) IN IF idx - 1 > 0 THEN idx - 1 ELSE 0

Scale(s) == [i \in 1..Len(s) |-> Den * s[i]]

\* ---------------- compute_ranking_data (replay.py:113-156) ----------------

\* entries appended in traces.items() order, skipping idx >= len(tr.distances)
RankEntries(in) ==
  LET ok == SelectSeq(in.order, LAMBDA c : in.idx[c] < Len(in.tr[c].distances))
  IN [i \in 1..Len(ok) |->
        LET c == ok[i] IN
        [code |-> c,
         progress |-> in.tr[c].distances[in.idx[c] + 1],
         lap |-> in.tr[c].lap_numbers[in.idx[c] + 1],
         speed |-> in.tr[c].speeds[in.idx[c] + 1]]]

\* stable insertion of x into a list already sorted by descending progress
RECURSIVE InsertDesc(_, _)
InsertDesc(s, x) ==
  IF s = <<>> THEN <<x>>
  ELSE IF Head(s).progress >= x.progress THEN <<Head(s)>> \o InsertDesc(Tail(s), x)
  ELSE <<x>> \o s

RECURSIVE InsertAsc(_, _)
InsertAsc(s, x) ==
  IF s = <<>> THEN <<x>>
  ELSE IF Head(s).progress <= x.progress THEN <<Head(s)>> \o InsertAsc(Tail(s), x)
  ELSE <<x>> \o s

RECURSIVE SortFrom(_, _)
SortFrom(s, acc) == IF s = <<>> THEN acc ELSE SortFrom(Tail(s), InsertDesc(acc, Head(s)))

RECURSIVE SortFromAsc(_, _)
SortFromAsc(s, acc) == IF s = <<>> THEN acc ELSE SortFromAsc(Tail(s), InsertAsc(acc, Head(s)))

RankSortAsc(s) == SortFromAsc(s, <<>>)

\* ranking.sort(key=lambda x: x["progress"], reverse=True): stable, descending
RankSort(s) == SortFrom(s, <<>>)

\* tgap = dgap / max(10, ahead["speed"] / 3.6), as an exact fraction num/den
GapTime(ahead, cur) ==
  LET dgap == ahead.progress - cur.progress
  IN IF ahead.speed * 5 > 10 * 18
     THEN [num |-> dgap * 18, den |-> ahead.speed * 5]
     ELSE [num |-> dgap, den |-> 10]

ComputeRankingDataToLeader(in) ==
  LET r == RankSort(RankEntries(in))
  IN [i \in 1..Len(r) |->
        [position |-> i, code |-> r[i].code, hasGap |-> i > 1,
         gap |-> IF i = 1 THEN [num |-> 0, den |-> 1] ELSE GapTime(r[1], r[i])]]

ComputeRankingData(in) ==
  LET r == RankSort(RankEntries(in))
  IN [i \in 1..Len(r) |->
        [position |-> i, code |-> r[i].code, hasGap |-> i > 1,
         gap |-> IF i = 1 THEN [num |-> 0, den |-> 1] ELSE GapTime(r[i - 1], r[i])]]

\* compute_ranking_data's input built from the playback state; the ranking
\* order does not read lap numbers or speeds, which are left at 0
PlayRankIn(ds, ix) ==
  [order |-> LoadOrder,
   tr |-> [e \in Entities |-> [distances |-> ds[e],
                                lap_numbers |-> [i \in 1..Len(ds[e]) |-> 0],
                                speeds |-> [i \in 1..Len(ds[e]) |-> 0]]],
   idx |-> ix]

RankCodes(in) == LET r == ComputeRankingData(in) IN [i \in 1..Len(r) |-> r[i].code]

\* lap_numbers of the first-loaded trace (every candidate trace has 3 samples)
FirstLapChoices == {<<1, 1, 1>>, <<1, 2, 2>>}

\* len(centerline) from build_track_geometry: the first trace's positions on
\* lap 2, else 3, else 1 (all positions if none), taken every step-th one;
\* fewer than 3 points give ([], {})
TrackPoints(ln) ==
  LET cands == <<2, 3, 1>>
      has(l) == \E i \in 1..Len(ln) : ln[i] = l
      use == IF \E k \in 1..3 : has(cands[k])
             THEN cands[CHOOSE k \in 1..3 : has(cands[k]) /\ \A j \in 1..k - 1 : ~has(cands[j])]
             ELSE 0
      n == IF use = 0 THEN Len(ln) ELSE Cardinality({i \in 1..Len(ln) : ln[i] = use})
      step == IF n \div 1000 > 1 THEN n \div 1000 ELSE 1
      pts == (n + step - 1) \div step
  IN IF pts < 3 THEN 0 ELSE pts

InitPlay(tc, ln) ==
  /\ trackPts = TrackPoints(ln)
  /\ times = [e \in Entities |-> Scale(tc[e].t)]
  /\ dist = [e \in Entities |-> tc[e].d]
  \* order = compute_ranking_data(traces, indices); selected = order[0]["code"]
  /\ selected = RankCodes(PlayRankIn([e \in Entities |-> tc[e].d], [e \in Entities |-> 0]))[1]
  /\ ct = MinTime([e \in Entities |-> Scale(tc[e].t)])
  /\ ctErr = 0
  /\ speed = Den
  /\ paused = FALSE
  /\ indices = [e \in Entities |-> 0]
  /\ rendered = FALSE
  /\ running = TRUE
  /\ done = FALSE
  /\ ticks = 0
  /\ keys = 0
  /\ lastOp = "init"
  \* data = {"traces": None, "colors": {}, "total_laps": 0}; loader not yet run
  /\ data = [hasTraces |-> FALSE, traces |-> {}, colors |-> {}, total_laps |-> 0]
  /\ ld = [pc |-> "start", i |-> 1, traces |-> {}, colors |-> {}, prepared |-> {}]
  /\ fg = [pc |-> "wait", view |-> [hasTraces |-> FALSE, traces |-> {}, colors |-> {}, total_laps |-> 0]]

MainInit == \E tc \in [Entities -> TraceChoices], ln \in FirstLapChoices : InitPlay(tc, ln)

\* playback state left idle while a pure function is checked on its own
IdlePlay == InitPlay([e \in Entities |-> [t |-> <<0, 1, 6>>, d |-> <<0, 40, 90>>]], <<1, 1, 1>>)

Init == MainInit /\ rin = "none" /\ rout = [called |-> FALSE]

\* key events handled before the frame's advance (replay.py:477-510)
EvUnchanged == UNCHANGED <<trackPts, times, dist, indices, done, ticks, rin, rout, ld, data, fg>>

\* a key event, at most cap of them in a behaviour
KeyStepUpTo(cap) == keys < cap /\ keys' = keys + 1

KeyStep == KeyStepUpTo(MaxKeys)

\* pygame.QUIT: running = False
Quit ==
  /\ ~done /\ running
  /\ keys' = keys
  /\ running' = FALSE
  /\ rendered' = FALSE
  /\ lastOp' = "quit"
  /\ UNCHANGED <<ct, ctErr, speed, paused, selected>> /\ EvUnchanged

\* K_SPACE: paused = not paused
TogglePause ==
  /\ ~done /\ KeyStep
  /\ paused' = ~paused
  /\ rendered' = FALSE
  /\ lastOp' = "toggle"
  /\ UNCHANGED <<ct, ctErr, speed, running, selected>> /\ EvUnchanged

\* K_UP: speed = min(8, speed * 1.5)
SpeedUpUpTo(cap) ==
  /\ ~done /\ KeyStepUpTo(cap)
  /\ speed' = IF speed * 3 >= 2 * SpeedMax * Den THEN SpeedMax * Den ELSE (speed * 3) \div 2
  /\ rendered' = FALSE
  /\ lastOp' = "up"
  /\ UNCHANGED <<ct, ctErr, paused, running, selected>> /\ EvUnchanged

SpeedDownNoFloorUpTo(cap) ==
  /\ ~done /\ KeyStepUpTo(cap)
  /\ speed' = (speed * 2) \div 3
  /\ rendered' = FALSE
  /\ lastOp' = "down"
  /\ UNCHANGED <<ct, ctErr, paused, running, selected>> /\ EvUnchanged

\* K_DOWN: speed = max(0.25, speed / 1.5)
SpeedDownUpTo(cap) ==
  /\ ~done /\ KeyStepUpTo(cap)
  /\ speed' = IF speed * 2 * SpeedMinInv <= 3 * Den THEN Den \div SpeedMinInv ELSE (speed * 2) \div 3
  /\ rendered' = FALSE
  /\ lastOp' = "down"
  /\ UNCHANGED <<ct, ctErr, paused, running, selected>> /\ EvUnchanged

SpeedUp == SpeedUpUpTo(MaxKeys)

SpeedDown == SpeedDownUpTo(MaxKeys)

SeekFwdNoClamp ==
  /\ ~done /\ KeyStep
  /\ \E e1 \in SumErrs(ctErr = 0, ct + SeekStep * Den) :
       ct' = ct + SeekStep * Den /\ ctErr' = e1
  /\ rendered' = FALSE
  /\ lastOp' = "fwd"
  /\ UNCHANGED <<speed, paused, running, selected>> /\ EvUnchanged

\* K_RIGHT: current_time = min(max_time, current_time + 5); min keeps
\* max_time unless the float sum is below it
SeekFwd ==
  /\ ~done /\ KeyStep
  /\ LET x == ct + SeekStep * Den IN
     \E e1 \in SumErrs(ctErr = 0, x) :
       IF FLt(x, e1, MaxTime(times)) THEN ct' = x /\ ctErr' = e1
       ELSE ct' = MaxTime(times) /\ ctErr' = 0
  /\ rendered' = FALSE
  /\ lastOp' = "fwd"
  /\ UNCHANGED <<speed, paused, running, selected>> /\ EvUnchanged

SeekBackNoClamp ==
  /\ ~done /\ KeyStep
  /\ \E e1 \in SumErrs(ctErr = 0, ct - SeekStep * Den) :
       ct' = ct - SeekStep * Den /\ ctErr' = e1
  /\ rendered' = FALSE
  /\ lastOp' = "back"
  /\ UNCHANGED <<speed, paused, running, selected>> /\ EvUnchanged

\* K_LEFT: current_time = max(min_time, current_time - 5); max keeps
\* min_time unless the float difference is above it
SeekBack ==
  /\ ~done /\ KeyStep
  /\ LET x == ct - SeekStep * Den IN
     \E e1 \in SumErrs(ctErr = 0, x) :
       IF FGt(x, e1, MinTime(times)) THEN ct' = x /\ ctErr' = e1
       ELSE ct' = MinTime(times) /\ ctErr' = 0
  /\ rendered' = FALSE
  /\ lastOp' = "back"
  /\ UNCHANGED <<speed, paused, running, selected>> /\ EvUnchanged

\* K_LEFTBRACKET / K_RIGHTBRACKET: rank = compute_ranking_data(traces, indices);
\* arr = [d["code"] for d in rank]; if selected in arr:
\* selected = arr[(i -/+ 1) % len(arr)]
SelectStep(step, op) ==
  /\ ~done /\ KeyStep
  /\ LET arr == RankCodes(PlayRankIn(dist, indices))
     IN IF \E i \in 1..Len(arr) : arr[i] = selected
        THEN LET i == CHOOSE j \in 1..Len(arr) : arr[j] = selected
             IN selected' = arr[((i - 1 + step) % Len(arr)) + 1]
        ELSE selected' = selected
  /\ rendered' = FALSE
  /\ lastOp' = op
  /\ UNCHANGED <<ct, ctErr, speed, paused, running>> /\ EvUnchanged

SelectPrev == SelectStep(-1, "prev")

SelectNextNoWrap ==
  /\ ~done /\ KeyStep
  /\ LET arr == RankCodes(PlayRankIn(dist, indices))
         i == CHOOSE j \in 1..Len(arr) : arr[j] = selected
     IN selected' = arr[IF i < Len(arr) THEN i + 1 ELSE i]
  /\ rendered' = FALSE
  /\ lastOp' = "next"
  /\ UNCHANGED <<ct, ctErr, speed, paused, running>> /\ EvUnchanged

SelectNext == SelectStep(1, "next")

\* one frame: dt = clock.tick(FPS) / 1000; if not paused: current_time +=
\* dt * speed; if current_time >= max_time: current_time = max_time,
\* paused = True; then every index is re-resolved and the frame drawn.
\* (strict, ignorePause, stop) select the code (FALSE, FALSE, TRUE) or a
\* variant of it.
FrameCore(dts, strict, ignorePause, stop) ==
  /\ ~done
  /\ \E dt \in dts :
       LET adv == ~paused \/ ignorePause
           x == IF adv THEN ct + dt * speed ELSE ct
       IN \E e1 \in (IF adv /\ dt > 0 THEN SumErrs(ctErr = 0 /\ Dyadic(speed), x) ELSE {ctErr}) :
            LET hit == adv /\ (IF strict THEN FGt(x, e1, MaxTime(times))
                               ELSE ~FLt(x, e1, MaxTime(times)))
                t2 == IF hit THEN MaxTime(times) ELSE x
                e2 == IF hit THEN 0 ELSE e1
            IN /\ ct' = t2
               /\ ctErr' = e2
               /\ paused' = (paused \/ (hit /\ stop))
               /\ indices' = [e \in Entities |-> Resolve(times[e], t2, e2)]
  \* draw_track_and_cars: with an empty centerline pygame.draw.aalines and
  \* markers["s1_line"] raise, which ends run_replay before the frame shows
  /\ rendered' = (trackPts >= 3)
  /\ done' = (~running \/ trackPts < 3)
  /\ lastOp' = IF trackPts >= 3 THEN "frame" ELSE "crash"
  /\ UNCHANGED <<trackPts, times, dist, selected, speed, running, keys, rin, rout, ld, data, fg>>

FrameStrictStop == ticks < MaxTicks /\ ticks' = ticks + 1 /\ FrameCore(DtSet, TRUE, FALSE, TRUE)

FrameIgnorePause == ticks < MaxTicks /\ ticks' = ticks + 1 /\ FrameCore(DtSet, FALSE, TRUE, TRUE)

\* end of one loop iteration: advance the clock, re-resolve, render
Frame == ticks < MaxTicks /\ ticks' = ticks + 1 /\ FrameCore(DtSet, FALSE, FALSE, TRUE)

Next == Quit \/ TogglePause \/ SpeedUp \/ SpeedDown \/ SeekFwd \/ SeekBack \/ SelectPrev \/ SelectNext \/ Frame

Spec == Init /\ [][Next]_vars

\* rate keys alone, enough of them to reach both clamps (6 K_UP from 1.0
\* pass 8, 4 K_DOWN pass 0.25), with frames advancing the clock
MaxRateKeys == 7

RateNext == SpeedUpUpTo(MaxRateKeys) \/ SpeedDownUpTo(MaxRateKeys) \/ Frame

RateSpec == Init /\ [][RateNext]_vars

\* ---------------- index resolution on its own (replay.py:518-520) ----------------

MaxLen == 4
MaxVal == 3

\* sample times in half-seconds, non-decreasing as the builder's sort leaves them
SortedSeqs ==
  UNION { {t \in [1..n -> {2 * v : v \in 0..MaxVal}] :
             \A i \in 1..n - 1 : t[i] <= t[i + 1]} : n \in 1..MaxLen }

QuerySet == (-2..(2 * MaxVal + 1)) \cup {200}

ResolveInit ==
  /\ IdlePlay
  /\ rin \in [t : SortedSeqs, q : QuerySet]
  /\ rout = [called |-> FALSE]

\* two successive resolutions of the same query on the unchanged series
ResolveCall ==
  /\ rout = [called |-> FALSE]
  /\ rout' = [called |-> TRUE, res |-> Resolve(rin.t, rin.q, 0), res2 |-> Resolve(rin.t, rin.q, 0)]
  /\ UNCHANGED <<PlayVars, LoadVars, rin>>

ResolveSpec == ResolveInit /\ [][ResolveCall]_vars

\* ---------------- ranking inputs checked on their own ----------------

MaxRankEntities == 3

Codes == {"ALO", "HAM", "VER"}
DistVals == {0, 480, 500}
LapVals == {2, 3}
SpeedVals == {0, 200}

\* one loaded DriverTrace reduced to the channels the ranking reads
TraceRecs == [distances : {<<d>> : d \in DistVals},
              lap_numbers : {<<l>> : l \in LapVals},
              speeds : {<<v>> : v \in SpeedVals}]

LoadOrders(n) == {x \in [1..n -> Codes] : \A i, j \in 1..n : i # j => x[i] # x[j]}

\* traces dict in insertion (load) order, with each entity's resolved index
RankInit ==
  /\ IdlePlay
  /\ \E n \in 1..MaxRankEntities : \E o \in LoadOrders(n) :
       \E f \in [{o[i] : i \in 1..n} -> TraceRecs], ix \in [{o[i] : i \in 1..n} -> {0, 1}] :
         rin = [order |-> o, tr |-> f, idx |-> ix]
  /\ rout = [called |-> FALSE]

\* two successive calls on the same traces and indices
RankCall ==
  /\ rout = [called |-> FALSE]
  /\ rout' = [called |-> TRUE, res |-> ComputeRankingData(rin), res2 |-> ComputeRankingData(rin)]
  /\ UNCHANGED <<PlayVars, LoadVars, rin>>

RankSpec == RankInit /\ [][RankCall]_vars

\* fields of the DriverTrace dataclass (telemetry_loader.py:10-20)
DriverTraceFields == {"driver_code", "positions", "times", "speeds", "gears", "drs",
                      "tyres", "sectors", "lap_numbers", "pit_status"}

\* keyword arguments process_driver passes to DriverTrace(...)
ProcessDriverKwargs == DriverTraceFields \cup {"distances"}

\* ---------------- process_driver's time axis (replay.py:159-280) ----------------

\* SessionTime in units of 100 ms
MaxBuildT == 3
MaxLaps == 2

\* merge_asof(..., tolerance=pandas.Timedelta("100ms")) in units of 100 ms
AsofTolerance == 1

Compounds == {"SOFT", "HARD"}

\* strictly increasing lap start times
LapStarts(n) == {st \in [1..n -> 0..MaxBuildT] : \A i \in 1..n - 1 : st[i] < st[i + 1]}

\* session.laps for one driver: LapNumber, LapStartTime, Time (lap end: the
\* next lap's LapStartTime, the last lap's own end), Compound, in lap order
LapTables ==
  UNION { { tab \in
              {[i \in 1..n |-> [num |-> i, start |-> st[i],
                                end |-> IF i < n THEN st[i + 1] ELSE le,
                                compound |-> cp[i]]] :
                 st \in LapStarts(n), le \in 1..MaxBuildT, cp \in [1..n -> Compounds]} :
            tab[n].start < tab[n].end }
          : n \in 1..MaxLaps }

\* SessionTimes of the driver's car samples and position samples, and the
\* lap table
BuildInputs == [stream : SUBSET (0..MaxBuildT), pos : SUBSET (0..MaxBuildT), laps : LapTables]

\* lap.get_car_data() slices up to the lap's Time
LapEnd(laps, i) == laps[i].end

\* lap.get_car_data() / lap.get_pos_data(): the samples with
\* LapStartTime <= t <= lap end (both ends included)
LapSlice(in, S, i) == {y \in S : in.laps[i].start <= y /\ y <= LapEnd(in.laps, i)}

\* merge_asof(car, pos, direction="nearest", tolerance=100ms) then
\* dropna(subset=["X", "Y"]): a car row keeps a position only when a
\* position sample of the lap lies within the tolerance;
\* tel["LapNumber"] = lap["LapNumber"]
LapRows(in, i) ==
  {[t |-> x, lap |-> in.laps[i].num] :
     x \in {y \in LapSlice(in, in.stream, i) :
              \E q \in LapSlice(in, in.pos, i) : y - q <= AsofTolerance /\ q - y <= AsofTolerance}}

\* laps whose car or position slice is empty are skipped (continue)
LapUsed(in, i) == LapSlice(in, in.stream, i) # {} /\ LapSlice(in, in.pos, i) # {}

\* merged_all: one (possibly empty) frame per used lap
MergedRows(in) == UNION {LapRows(in, i) : i \in {j \in 1..Len(in.laps) : LapUsed(in, j)}}

RECURSIVE SortedList(_)
SortedList(S) ==
  IF S = {} THEN <<>>
  ELSE LET m == CHOOSE x \in S : \A y \in S : x <= y
       IN <<m>> \o SortedList(S \ {m})

SortBySessionTimeLapDesc(rows) ==
  LET ks == SortedList({x.t * (MaxLaps + 1) + (MaxLaps - x.lap) : x \in rows})
  IN [i \in 1..Len(ks) |->
        CHOOSE x \in rows : x.t * (MaxLaps + 1) + (MaxLaps - x.lap) = ks[i]]

\* tel.sort_values("SessionTime"): pandas' default quicksort; on frames of
\* at most 16 rows numpy's introsort is an insertion sort, which keeps rows
\* with equal SessionTime in concatenation order (lap order)
SortBySessionTime(rows) ==
  LET ks == SortedList({x.t * (MaxLaps + 1) + x.lap : x \in rows})
  IN [i \in 1..Len(ks) |->
        CHOOSE x \in rows : x.t * (MaxLaps + 1) + x.lap = ks[i]]

\* tyre_map = laps.set_index("LapNumber")["Compound"]; tyres[i] = tyre_map[lapnum]
TyreOf(in, lapnum) == (CHOOSE l \in {in.laps[i] : i \in 1..Len(in.laps)} : l.num = lapnum).compound

BuildInit ==
  /\ IdlePlay
  /\ rin \in BuildInputs
  /\ rout = [called |-> FALSE]

\* process_driver: (None, None, None) when no lap is used; otherwise the
\* concatenated rows are sorted and the times, lap_numbers and tyres lists
\* (rows) are prepared, and DriverTrace(...) is called, which raises
\* TypeError unless every keyword is a field; the except clause returns
\* (None, None, None). ok: a trace was returned.
BuildCall ==
  /\ rout = [called |-> FALSE]
  /\ IF {j \in 1..Len(rin.laps) : LapUsed(rin, j)} = {}
     THEN rout' = [called |-> TRUE, ok |-> FALSE, prepared |-> FALSE, rows |-> <<>>]
     ELSE LET arr == SortBySessionTime(MergedRows(rin)) IN
            rout' = [called |-> TRUE,
                     ok |-> ProcessDriverKwargs \subseteq DriverTraceFields,
                     prepared |-> TRUE,
                     rows |-> [i \in 1..Len(arr) |-> [t |-> arr[i].t, lap |-> arr[i].lap,
                                                      tyre |-> TyreOf(rin, arr[i].lap)]]]
  /\ UNCHANGED <<PlayVars, LoadVars, rin>>

BuildSpec == BuildInit /\ [][BuildCall]_vars

\* ---------------- continuous distance (replay.py:223-228) ----------------

MaxPos == 4

\* track positions whose pairwise distances are whole numbers (3-4-5); the
\* list is empty when dropna removed every merged row
PosVals == {<<0, 0>>, <<3, 0>>, <<0, 4>>, <<3, 4>>}

PosSeqs == UNION {[1..n -> PosVals] : n \in 0..MaxPos}

ManhattanDist(p, q) ==
  (IF p[1] >= q[1] THEN p[1] - q[1] ELSE q[1] - p[1]) +
  (IF p[2] >= q[2] THEN p[2] - q[2] ELSE q[2] - p[2])

\* math.dist((x1, y1), (x2, y2))
MathDist(p, q) ==
  CHOOSE r \in 0..10 : r * r = (p[1] - q[1]) * (p[1] - q[1]) + (p[2] - q[2]) * (p[2] - q[2])

\* distances = [0.0]; for i in 1..len-1: distances.append(distances[-1] + d)
RECURSIVE DistLoop(_, _, _)
DistLoop(pos, i, acc) ==
  IF i > Len(pos) THEN acc
  ELSE DistLoop(pos, i + 1, Append(acc, acc[Len(acc)] + MathDist(pos[i - 1], pos[i])))

Distances(pos) == DistLoop(pos, 2, <<0>>)

DistInit ==
  /\ IdlePlay
  /\ rin \in PosSeqs
  /\ rout = [called |-> FALSE]

DistCall ==
  /\ rout = [called |-> FALSE]
  /\ rout' = [called |-> TRUE, res |-> Distances(rin)]
  /\ UNCHANGED <<PlayVars, LoadVars, rin>>

DistSpec == DistInit /\ [][DistCall]_vars

\* ---------------- background load and handoff (replay.py:412-455) ----------------

MaxDrivers == 2
MaxDriverLaps == 2

\* one driver's data in the session: per lap (LapNumber = position), whether
\* its car/pos telemetry is non-empty
DriverBatches == UNION {[1..n -> BOOLEAN] : n \in 0..MaxDriverLaps}

LoadInputs ==
  [loadFails : BOOLEAN,
   drivers : UNION {[1..n -> DriverBatches] : n \in 1..MaxDrivers}]

DriverCode(i) == IF i = 1 THEN "D1" ELSE IF i = 2 THEN "D2" ELSE "D3"

TelemetryLaps(b) == {l \in 1..Len(b) : b[l]}

\* process_driver: (None, None, None) when the driver has no laps, when no lap
\* has telemetry, or when building the DriverTrace raises; otherwise the trace.
\* prepared: the lap_numbers values computed before DriverTrace(...) is
\* called (empty when it is not reached)
ProcessDriver(b, i) ==
  IF Len(b) = 0 THEN [ok |-> FALSE, prepared |-> {}]
  ELSE IF TelemetryLaps(b) = {} THEN [ok |-> FALSE, prepared |-> {}]
  ELSE IF ~(ProcessDriverKwargs \subseteq DriverTraceFields) THEN [ok |-> FALSE, prepared |-> TelemetryLaps(b)]
  ELSE [ok |-> TRUE, code |-> DriverCode(i), laps |-> TelemetryLaps(b), col |-> "col" \o DriverCode(i),
        prepared |-> TelemetryLaps(b)]

AllLapNumbers(in) == UNION {1..Len(in.drivers[i]) : i \in 1..Len(in.drivers)}

Max(S) == CHOOSE x \in S : \A y \in S : y <= x

\* session.load(...); data["total_laps"] = int(session.laps["LapNumber"].max())
\* (no lap at all: int(NaN) raises); an exception ends the loader
LoaderStart ==
  /\ ld.pc = "start"
  /\ IF rin.loadFails \/ AllLapNumbers(rin) = {}
     THEN /\ ld' = [ld EXCEPT !.pc = "done"]
          /\ UNCHANGED data
     ELSE /\ data' = [data EXCEPT !.total_laps = Max(AllLapNumbers(rin))]
          /\ ld' = [ld EXCEPT !.pc = "map"]
  /\ UNCHANGED <<PlayVars, fg, rin, rout>>

\* for code, tr, col in pool.map(...): if code and tr: traces[code] = tr; colors[code] = col
LoaderMap ==
  /\ ld.pc = "map"
  /\ IF ld.i <= Len(rin.drivers)
     THEN LET r == ProcessDriver(rin.drivers[ld.i], ld.i)
          IN ld' = [ld EXCEPT !.i = ld.i + 1,
                              !.traces = IF r.ok THEN ld.traces \cup {[code |-> r.code, laps |-> r.laps]}
                                         ELSE ld.traces,
                              !.colors = IF r.ok THEN ld.colors \cup {[code |-> r.code, col |-> r.col]}
                                         ELSE ld.colors,
                              !.prepared = IF r.prepared = {} THEN ld.prepared
                                           ELSE ld.prepared \cup {r.prepared}]
     ELSE ld' = [ld EXCEPT !.pc = "setTraces"]
  /\ UNCHANGED <<PlayVars, data, fg, rin, rout>>

\* data["traces"] = traces
LoaderSetTraces ==
  /\ ld.pc = "setTraces"
  /\ data' = [data EXCEPT !.hasTraces = TRUE, !.traces = ld.traces]
  /\ ld' = [ld EXCEPT !.pc = "setColors"]
  /\ UNCHANGED <<PlayVars, fg, rin, rout>>

\* data["colors"] = colors; the thread ends
LoaderSetColors ==
  /\ ld.pc = "setColors"
  /\ data' = [data EXCEPT !.colors = ld.colors]
  /\ ld' = [ld EXCEPT !.pc = "done"]
  /\ UNCHANGED <<PlayVars, fg, rin, rout>>

\* while th.is_alive(): the loop test sees the thread alive and enters the
\* body (the thread may finish before the body's events are handled)
FgAlive ==
  /\ fg.pc = "wait"
  /\ ld.pc # "done"
  /\ fg' = [fg EXCEPT !.pc = "events"]
  /\ UNCHANGED <<PlayVars, ld, data, rin, rout>>

\* for e in pygame.event.get(): if e.type == pygame.QUIT: return
FgQuit ==
  /\ fg.pc = "events"
  /\ fg' = [fg EXCEPT !.pc = "quit"]
  /\ UNCHANGED <<PlayVars, ld, data, rin, rout>>

\* no QUIT among the events; clock.tick(10) and back to the loop test
FgNoQuit ==
  /\ fg.pc = "events"
  /\ fg' = [fg EXCEPT !.pc = "wait"]
  /\ UNCHANGED <<PlayVars, ld, data, rin, rout>>

FgReadEarly ==
  /\ fg.pc = "wait"
  /\ fg' = [pc |-> IF data.hasTraces /\ data.traces # {} THEN "playing" ELSE "failed",
            view |-> data]
  /\ UNCHANGED <<PlayVars, ld, data, rin, rout>>

\* loop exits once the thread is dead; traces = data["traces"];
\* if not traces: "Failed to load telemetry!"; else playback starts
FgRead ==
  /\ fg.pc = "wait"
  /\ ld.pc = "done"
  /\ fg' = [pc |-> IF data.hasTraces /\ data.traces # {} THEN "playing" ELSE "failed",
            view |-> data]
  /\ UNCHANGED <<PlayVars, ld, data, rin, rout>>

LoadInit ==
  /\ IdlePlay
  /\ rin \in LoadInputs
  /\ rout = [called |-> FALSE]

LoadNext ==
  \/ LoaderStart \/ LoaderMap \/ LoaderSetTraces \/ LoaderSetColors
  \/ FgAlive \/ FgQuit \/ FgNoQuit \/ FgRead

LoadSpec == LoadInit /\ [][LoadNext]_vars

\* ---------------- playback with ticks that keep arriving ----------------

\* frame times of at least epsilon = 1 s
LiveDt == {1, 2}

LiveFrameNoStop == FrameCore(LiveDt, FALSE, FALSE, FALSE) /\ UNCHANGED ticks

\* one loop iteration's advance, re-resolution and render, without a cap on
\* the number of frames
LiveFrame == FrameCore(LiveDt, FALSE, FALSE, TRUE) /\ UNCHANGED ticks

\* no pause toggle, no backward seek, no quit
LiveNext == LiveFrame \/ SeekFwd \/ SpeedUp \/ SpeedDown

LiveSpec == Init /\ [][LiveNext]_vars /\ WF_vars(LiveFrame)

\* ---------------- properties ----------------

Clamp(x, lo, hi) == IF x < lo THEN lo ELSE IF x > hi THEN hi ELSE x

\* C1: current_time always lies in [min_t, max_t] whatever sequence of
\* ticks, seeks, pause toggles and rate changes happens.
\* (the float value ct + error: equal to a bound only with error sign 0)
C1_ClockInRange ==
  /\ (MinTime(times) < ct \/ (ct = MinTime(times) /\ ctErr >= 0))
  /\ (ct < MaxTime(times) \/ (ct = MaxTime(times) /\ ctErr <= 0))

C1_Witness == lastOp = "back" /\ ct = MinTime(times) /\ ctErr = 0 /\ ticks > 0

\* C2 (original): whenever current_time equals max_t, the clock is paused,
\* including right after a seek that lands on max_t.
C2_AtEndPaused == (ct = MaxTime(times) /\ ctErr = 0) => paused

\* C2 (amended): in every rendered frame, that is after the frame's advance,
\* current_time = max_t implies paused.
C2_RenderedAtEndPaused == (rendered /\ ct = MaxTime(times) /\ ctErr = 0) => paused

C2_Witness == rendered /\ ct = MaxTime(times) /\ ctErr = 0 /\ paused

\* greatest 0-based i with s[i] <= x (x the float with exact part x and
\* error sign e), or 0 if no sample qualifies
LeF(a, x, e) == a < x \/ (a = x /\ e >= 0)

GreatestLe(s, x, e) ==
  IF \E i \in 1..Len(s) : LeF(s[i], x, e)
  THEN (CHOOSE i \in 1..Len(s) : LeF(s[i], x, e) /\ \A j \in 1..Len(s) : LeF(s[j], x, e) => j <= i) - 1
  ELSE 0

\* C3: whenever a frame is rendered, every entity's index is the greatest i
\* with times_e[i] <= current_time (0 if none qualifies).
\* (the initial state included: indices = {code: 0 for code in traces}
\* is what the initial compute_ranking_data reads)
C3_IndicesResolved ==
  (rendered \/ lastOp = "init") => \A e \in Entities : indices[e] = GreatestLe(times[e], ct, ctErr)

C3_Witness == rendered /\ lastOp = "frame" /\ \E e \in Entities : indices[e] >= 1

\* C5: a seek sets current_time to clamp(current_time +/- 5, min_t, max_t)
\* and leaves paused and rate unchanged, playing or paused.
C5_SeekFrame ==
  [][ /\ (lastOp' = "fwd" => ct' = Clamp(ct + SeekStep * Den, MinTime(times), MaxTime(times)))
      /\ (lastOp' = "back" => ct' = Clamp(ct - SeekStep * Den, MinTime(times), MaxTime(times)))
      /\ (lastOp' \in {"fwd", "back"} => paused' = paused /\ speed' = speed)
    ]_vars

C5_Witness == lastOp \in {"fwd", "back"} /\ paused /\ keys >= 2

\* C6: rate stays within [0.25, 8] (so > 0), and a rate change does not
\* move current_time.
C6_RateBounds ==
  /\ [](Den <= SpeedMinInv * speed /\ speed <= SpeedMax * Den)
  /\ [][lastOp' \in {"up", "down"} => ct' = ct]_vars

\* the min(8, ...) cap has fired (1.5^6 > 8)
C6_Witness == lastOp = "up" /\ speed = SpeedMax * Den /\ keys >= 6

\* C7: playback starts PLAYING at min_t; a pause toggle flips paused and
\* keeps current_time; an advance while paused keeps current_time.
C7_ClockStateMachine ==
  /\ ~paused /\ ct = MinTime(times)
  /\ [][ /\ (lastOp' = "toggle" => paused' = ~paused /\ ct' = ct /\ ctErr' = ctErr)
        /\ (lastOp' \in {"frame", "crash"} /\ paused => ct' = ct /\ ctErr' = ctErr)
      ]_vars

C7_Witness == lastOp = "frame" /\ paused /\ ct < MaxTime(times)

\* C4: resolve returns the i with t[i] <= q and (i = len-1 or t[i+1] > q);
\* 0 when q is before the first sample, the last index when q is after the
\* last one; the same query on the unchanged series gives the same index.
C4_ResolveCorrect ==
  rout.called =>
    LET t == rin.t
        q == rin.q
        i == rout.res
    IN /\ i \in 0..Len(t) - 1
       /\ (q >= t[1] => t[i + 1] <= q /\ (i = Len(t) - 1 \/ t[i + 2] > q))
       /\ (q < t[1] => i = 0)
       /\ (q > Last(t) => i = Len(t) - 1)
       /\ rout.res2 = i

\* Scenario A: times [0,1,2,3] (half-second units), q = 1.5 resolves to 1
C4_Witness == rout.called /\ rin.t = <<0, 2, 4, 6>> /\ rin.q = 3 /\ rout.res = 1

\* progress key of an entity at its resolved index
Key(in, c) == [lap |-> in.tr[c].lap_numbers[in.idx[c] + 1],
               dist |-> in.tr[c].distances[in.idx[c] + 1],
               speed |-> in.tr[c].speeds[in.idx[c] + 1]]

\* C8: the ranking is ordered by descending (lap_number, distance), so an
\* entity on a later lap is ahead of any entity on an earlier lap.
C8_LapThenDistance ==
  rout.called =>
    \A i \in 1..Len(rout.res) - 1 :
      LET a == Key(rin, rout.res[i].code)
          b == Key(rin, rout.res[i + 1].code)
      IN a.lap > b.lap \/ (a.lap = b.lap /\ a.dist >= b.dist)

\* alphabetical order of entity ids
CodeOrd == [c \in Codes |-> IF c = "ALO" THEN 1 ELSE IF c = "HAM" THEN 2 ELSE 3]

\* C9: two calls agree, and entities with equal (lap, distance) come out in
\* ascending entity_id order whatever the load order.
C9_TieBreakById ==
  rout.called =>
    /\ rout.res2 = rout.res
    /\ \A i \in 1..Len(rout.res) - 1 :
         LET a == Key(rin, rout.res[i].code)
             b == Key(rin, rout.res[i + 1].code)
         IN (a.lap = b.lap /\ a.dist = b.dist) =>
              CodeOrd[rout.res[i].code] < CodeOrd[rout.res[i + 1].code]

\* C10: the leader has no gap; every other entry's gap times
\* max(ahead.speed / 3.6, 10) equals progress(ahead) - progress(self), and
\* the gap is a finite, non-negative number.
C10_GapToAhead ==
  rout.called =>
    LET r == rout.res IN
    /\ Len(r) > 0 => ~r[1].hasGap
    /\ \A i \in 2..Len(r) :
         LET ah == Key(rin, r[i - 1].code)
             me == Key(rin, r[i].code)
             m == IF ah.speed * 5 >= 10 * 18 THEN [n |-> ah.speed * 5, d |-> 18]
                  ELSE [n |-> 10, d |-> 1]
             g == r[i].gap
         IN /\ r[i].hasGap
            /\ g.den > 0
            /\ g.num >= 0
            /\ g.num * m.n = (ah.dist - me.dist) * g.den * m.d

\* Scenario C: A 500 / B 480 on the same lap, A at 200 km/h: B's gap is 0.36 s
\* a third-placed entity whose car ahead is not the leader, at a distance
\* from the leader different from its distance to the car ahead
C10_Witness ==
  rout.called /\ Len(rout.res) = 3 /\ rout.res[3].hasGap /\ rout.res[3].gap.num > 0
  /\ Key(rin, rout.res[2].code).dist # Key(rin, rout.res[1].code).dist

\* C11: select-next / select-previous move the selection to the next /
\* previous entry of the ranking at the current indices, wrapping around at
\* both ends; the selection is always an entity of the session.
C11_SelectionWraps ==
  /\ [](selected \in Entities)
  /\ [][ LET r == ComputeRankingData(PlayRankIn(dist, indices))
             n == Len(r)
             p == CHOOSE i \in 1..n : r[i].code = selected
         IN /\ lastOp' = "next" => selected' = r[IF p = n THEN 1 ELSE p + 1].code
            /\ lastOp' = "prev" => selected' = r[IF p = 1 THEN n ELSE p - 1].code
       ]_vars

\* a select-next that wrapped from the last entry to the first
C11_Witness == lastOp = "next" /\ selected = RankCodes(PlayRankIn(dist, indices))[1]

\* C12: every ranking the consumer uses (the leaderboard of a rendered frame,
\* or the ranking a select-next/previous steps through) is computed from
\* indices resolved against the current current_time.
C12_RankingFresh ==
  (rendered \/ lastOp \in {"next", "prev"}) =>
    \A e \in Entities : indices[e] = GreatestLe(times[e], ct, ctErr)

\* C13: a built series has strictly increasing times (duplicate timestamps
\* collapsed to their first occurrence); checked on the times list
\* process_driver prepares for the series.
C13_StrictTimes ==
  rout.called /\ rout.prepared =>
    \A i \in 1..Len(rout.rows) - 1 : rout.rows[i].t < rout.rows[i + 1].t

LatestLap(in, t) ==
  IF \E i \in 1..Len(in.laps) : in.laps[i].start <= t
  THEN in.laps[CHOOSE i \in 1..Len(in.laps) :
                 in.laps[i].start <= t /\ \A j \in 1..Len(in.laps) : in.laps[j].start <= t => j <= i].num
  ELSE 0

\* C18: every sample carries the lap number and tyre of the latest lap
\* starting at or before it; samples before the first lap get lap 0 and
\* tyre UNKNOWN (on the prepared lap_numbers and tyres lists).
C18_LapTyreAssignment ==
  rout.called /\ rout.prepared =>
    \A i \in 1..Len(rout.rows) :
      LET l == LatestLap(rin, rout.rows[i].t)
      IN /\ rout.rows[i].lap = l
         /\ rout.rows[i].tyre = IF l = 0 THEN "UNKNOWN" ELSE TyreOf(rin, l)

\* C15: distance[0] = 0 and each step adds the Euclidean distance between
\* consecutive positions; one entry per sample, non-decreasing.
C15_CumulativeDistance ==
  rout.called =>
    LET d == rout.res
        pos == rin
    IN /\ Len(d) = Len(pos)
       /\ d[1] = 0
       /\ \A i \in 2..Len(d) :
            /\ d[i] >= d[i - 1]
            /\ (d[i] - d[i - 1]) * (d[i] - d[i - 1]) =
                 (pos[i][1] - pos[i - 1][1]) * (pos[i][1] - pos[i - 1][1]) +
                 (pos[i][2] - pos[i - 1][2]) * (pos[i][2] - pos[i - 1][2])

\* a diagonal 3-4-5 step: (0,0) -> (3,4) -> (3,0) gives [0, 5, 9]
C15_Witness == rout.called /\ rin = <<<<0, 0>>, <<3, 4>>, <<3, 0>>>> /\ rout.res = <<0, 5, 9>>

\* a driver whose batch would build: it has laps and some lap has telemetry
ValidBatch(b) == Len(b) > 0 /\ \E l \in 1..Len(b) : b[l]

\* C16: failing entities are dropped, and playback is refused only when every
\* entity failed: with one valid batch (and a session that loads) playback starts.
C16_StartsWithValid ==
  (fg.pc \in {"failed", "playing"} /\ ~rin.loadFails /\ \E i \in 1..Len(rin.drivers) : ValidBatch(rin.drivers[i]))
    => fg.pc = "playing"

\* C17: the foreground reads traces, colors and total_laps only once the
\* loader has finished, and then sees the loader's final data: the complete
\* set of built traces, or none.
C17_Handoff ==
  [](fg.pc \in {"failed", "playing"} =>
       /\ ld.pc = "done"
       /\ fg.view = data
       /\ (fg.view.hasTraces => fg.view.traces = ld.traces /\ ld.i = Len(rin.drivers) + 1))

C17_Witness == fg.pc \in {"failed", "playing"} /\ fg.view.hasTraces /\ Len(rin.drivers) = MaxDrivers

\* C19: the total-lap count handed to the session equals the maximum
\* lap_number across the built series (the lap_numbers lists process_driver
\* prepares for them).
C19_TotalLaps ==
  (ld.pc = "done" /\ data.hasTraces /\ ld.prepared # {}) =>
    data.total_laps = Max(UNION ld.prepared)

\* C20: while playing with no pause toggle or backward seek and frames of at
\* least epsilon arriving (weak fairness), the clock eventually reaches max_t
\* and is paused; current_time never decreases across advances.
C20_Progress ==
  /\ <>(paused /\ ct = MaxTime(times))
  /\ [][lastOp' \in {"frame", "crash"} => ct' >= ct]_vars

C20_Witness == lastOp = "frame" /\ paused /\ ct = MaxTime(times)

====
